---- MODULE Spec2Model ----
(***************************************************************************)
(* The realtime voice session of the App component (src/unnamed/part_000): *)
(* connectToGemini, the four channel callbacks, disconnect, and the        *)
(* objects they act on (two AudioContexts and a microphone stream per      *)
(* connect attempt, the live channel and its session promise).             *)
(*                                                                         *)
(* Scheduling is the browser's: every handler runs to completion or to its *)
(* next await.  The await on decodeAudioData resumes in a microtask, so    *)
(* only the audio clock (another thread) moves while it is pending; the    *)
(* awaits on the ring timer, getUserMedia and the session promise are real *)
(* suspensions across which any other handler may run.                     *)
(***************************************************************************)
EXTENDS Integers, Sequences, FiniteSets, TLC

\* ------------------------------------------------------------- bounds
\* Spec: the whole component
MaxSessions == 2      \* connect attempts in one behaviour
MaxMsgs == 1          \* inbound messages delivered in one behaviour
MaxFrames == 1        \* microphone frames captured in one behaviour
MaxDisc == 1          \* disconnect() calls suspended on one session promise
MaxTime == 1          \* render quanta an output clock is ticked through
\* SpecDisc: connect and disconnect alone
DiscSessions == 2
DiscCalls == 2        \* disconnect() calls suspended on one session promise
\* SpecPlay: audio chunks against the output clock
PlaySessions == 1
PlayMsgs == 3
PlayTime == 3          \* render quanta an output clock is ticked through
\* SpecText: transcription deltas and turn completions
TextSessions == 1
TextMsgsMax == 3
\* SpecTool: tool-call batches
ToolSessions == 1
ToolMsgsMax == 5
\* SpecLog: the transcript log and the customer records
LogSessions == 2        \* the second attempt is a reconnect with the logs filled
LogMsgsMax == 2         \* two messages: a record is appended to a non-empty list
\* SpecPcm: one frame through createBlob, decode and decodeAudioData
FrameLen == 1          \* samples in a frame
MaxSampleK == 90       \* samples range over -MaxSampleK..MaxSampleK grid steps

Max(x, y) == IF x >= y THEN x ELSE y
Min(x, y) == IF x <= y THEN x ELSE y

Sess ==
  1..Max(Max(Max(MaxSessions, PlaySessions), Max(TextSessions, ToolSessions)),
         Max(LogSessions, DiscSessions))

\* ------------------------------------------------------- audioUtils.ts
\* A Float32 sample is the integer n standing for n / SampleDen; every such
\* value is exact in a Float32.  A decoded sample is the integer v standing
\* for v / DecodeScale.
SampleDen == 65536
NegScale == 32768
PosScale == 32767
DecodeScale == 32768

\* The grid holds 65535 / 65536 (85 * 771) and values beyond [-1, 1].
Samples == {k * 771 : k \in (-MaxSampleK)..MaxSampleK}

RECURSIVE FramesOf(_)
FramesOf(n) ==
  IF n = 0 THEN {<<>>}
  ELSE {<<x>> \o f : x \in Samples, f \in FramesOf(n - 1)}

Frames == FramesOf(FrameLen)

\* x / d with the fraction dropped, as a store into an integer typed array
\* does (d > 0).
Trunc(x, d) == IF x >= 0 THEN x \div d ELSE (x + d - 1) \div d

\* A store into an Int16Array keeps the low 16 bits, two's complement.
Int16Of(x) == ((x + 32768) % 65536) - 32768

\* audioUtils.ts line 7: Math.max(-1, Math.min(1, data[i])).
Clamp(n) == Max(-SampleDen, Min(SampleDen, n))

\* audioUtils.ts lines 7-8: the Int16 stored for sample n.
Quantize(n) ==
  LET s == Clamp(n) IN
  Int16Of(IF s < 0 THEN Trunc(s * NegScale, SampleDen)
          ELSE Trunc(s * PosScale, SampleDen))

RECURSIVE Int16Bytes(_)
\* audioUtils.ts line 11: new Uint8Array(int16.buffer), little-endian.
Int16Bytes(ints) ==
  IF ints = <<>> THEN <<>>
  ELSE LET u == Head(ints) % 65536 IN
       <<u % 256, u \div 256>> \o Int16Bytes(Tail(ints))

B64 ==
  <<"A", "B", "C", "D", "E", "F", "G", "H", "I", "J", "K", "L", "M", "N", "O",
    "P", "Q", "R", "S", "T", "U", "V", "W", "X", "Y", "Z", "a", "b", "c", "d",
    "e", "f", "g", "h", "i", "j", "k", "l", "m", "n", "o", "p", "q", "r", "s",
    "t", "u", "v", "w", "x", "y", "z", "0", "1", "2", "3", "4", "5", "6", "7",
    "8", "9", "+", "/">>

RECURSIVE encode(_)
\* audioUtils.ts lines 17-24: btoa of the bytes, as a sequence of characters.
encode(bytes) ==
  IF bytes = <<>> THEN <<>>
  ELSE LET n == Len(bytes)
           w == bytes[1] * 65536
                  + (IF n >= 2 THEN bytes[2] ELSE 0) * 256
                  + (IF n >= 3 THEN bytes[3] ELSE 0)
       IN <<B64[(w \div 262144) + 1],
            B64[((w \div 4096) % 64) + 1],
            IF n >= 2 THEN B64[((w \div 64) % 64) + 1] ELSE "=",
            IF n >= 3 THEN B64[(w % 64) + 1] ELSE "=">>
          \o encode(IF n > 3 THEN SubSeq(bytes, 4, n) ELSE <<>>)

\* The characters btoa writes and atob reads, apart from the padding.
B64Chars == {B64[i] : i \in 1..64}

B64Value(c) == (CHOOSE i \in 1..64 : B64[i] = c) - 1

\* atob skips ASCII whitespace.
Whitespace == {" ", "\t", "\n", "\f", "\r"}

\* atob's input as it is read: whitespace removed and, when what is left has
\* a length that is a multiple of 4, one or two '=' at its end removed.
Unpadded(base64) ==
  LET t == SelectSeq(base64, LAMBDA c : c \notin Whitespace)
      n == Len(t)
  IN IF n > 0 /\ n % 4 = 0 /\ t[n] = "="
       THEN (IF t[n - 1] = "=" THEN SubSeq(t, 1, n - 2) ELSE SubSeq(t, 1, n - 1))
       ELSE t

\* audioUtils.ts line 28: atob throws InvalidCharacterError, and decode with
\* it, on a length of 1 modulo 4 and on any character outside the alphabet
\* (a '=' that is not final padding included).
atobThrows(base64) ==
  LET t == Unpadded(base64) IN
  \/ Len(t) % 4 = 1
  \/ \E i \in DOMAIN t : t[i] \notin B64Chars

RECURSIVE Bytes(_)
\* The bytes of unpadded base64 characters: three of every four characters,
\* one of a last two and two of a last three (the spare bits are dropped).
Bytes(t) ==
  IF Len(t) < 2 THEN <<>>
  ELSE LET n == Len(t)
           w == B64Value(t[1]) * 262144 + B64Value(t[2]) * 4096
                  + (IF n >= 3 THEN B64Value(t[3]) ELSE 0) * 64
                  + (IF n >= 4 THEN B64Value(t[4]) ELSE 0)
       IN SubSeq(<<w \div 65536, (w \div 256) % 256, w % 256>>, 1, Min(n, 4) - 1)
          \o Bytes(IF n > 4 THEN SubSeq(t, 5, n) ELSE <<>>)

\* audioUtils.ts lines 27-35: the bytes of atob(base64), when atob returns.
decode(base64) == Bytes(Unpadded(base64))

\* audioUtils.ts lines 2-14.
createBlob(data) ==
  [data |-> encode(Int16Bytes([i \in DOMAIN data |-> Quantize(data[i])])),
   mimeType |-> "audio/pcm;rate=16000"]

\* audioUtils.ts line 44: new Int16Array(buffer) throws RangeError when the
\* buffer's byte length is odd.
Int16ArrayThrows(bytes) == Len(bytes) % 2 # 0

RECURSIVE Int16Array(_)
\* audioUtils.ts line 44: new Int16Array(data.buffer), little-endian; data is
\* the array decode returns, which spans its whole buffer.
Int16Array(bytes) ==
  IF Len(bytes) < 2 THEN <<>>
  ELSE <<Int16Of(bytes[1] + 256 * bytes[2])>>
         \o Int16Array(SubSeq(bytes, 3, Len(bytes)))

\* audioUtils.ts lines 44-46: the promise of decodeAudioData rejects when
\* Int16Array throws and when createBuffer does (NotSupportedError for a
\* buffer of no frames).
decodeAudioDataRejects(data) ==
  Int16ArrayThrows(data) \/ Len(data) = 0

\* audioUtils.ts lines 38-55, one channel: channelData[i] is
\* dataInt16[i] / 32768.0, kept as its numerator over DecodeScale.
decodeAudioData(data) == Int16Array(data)

\* AudioBuffer.duration of a buffer of 24000 frames a second (part_000 line
\* 145), in frames.
Duration(buffer) == Len(buffer)

\* ------------------------------------------------------------- values
Deltas == {<<"a">>, <<"b">>}
\* Frames in an audio chunk that decodes.  Time is counted in frames of the
\* output context, 24000 a second (part_000 line 77).
Durations == {1}
Levels == {50}

\* The value of a field that the SDK types string | undefined and that the
\* server's JSON fills.
JsString(s) == [type |-> "string", chars |-> s]
Undefined == [type |-> "undefined"]
Null == [type |-> "null"]

\* What += on a string appends for the value v (lines 166 and 169).
JsToString(v) ==
  CASE v.type = "string" -> v.chars
    [] v.type = "null" -> <<"n", "u", "l", "l">>
    [] OTHER -> <<"u", "n", "d", "e", "f", "i", "n", "e", "d">>

\* serverContent.inputTranscription / outputTranscription whose text is v.
Transcription(v) == [text |-> v]

\* An object is a record of the properties it has; a property the object
\* lacks is no field of the record, and {} is the record without fields.
EmptyObject == <<>>

\* What reading property f of object o gives.
Get(o, f) == IF f \in DOMAIN o THEN o[f] ELSE Undefined

\* message.toolCall with its functionCalls; EmptyObject is a toolCall
\* without them.
ToolCall(calls) == [functionCalls |-> calls]

\* inlineData.data: n frames of silence, base64.
PcmChunk(n) == encode(Int16Bytes([i \in 1..n |-> 0]))
\* A single byte, base64: half a frame.
OddChunk == encode(<<0>>)
\* Five characters: no base64 text has that length.
NotBase64 == <<"A", "A", "A", "A", "A">>

Args1 ==
  [fullName |-> "n1", phoneNumber |-> "p1", monthlyIncome |-> "i1",
   age |-> "30", insuranceType |-> "Health"]

Args2 ==
  [fullName |-> "n2", phoneNumber |-> "p2", monthlyIncome |-> "i2",
   age |-> "45", insuranceType |-> "Life"]

\* Calls with an odd id carry Args1, the others Args2.
SaveCall(id) ==
  [id |-> id, name |-> "saveCustomerDetails",
   args |-> IF id % 2 = 1 THEN Args1 ELSE Args2]
OtherCall(id) == [id |-> id, name |-> "lookupPolicy", args |-> Args1]
\* A saveCustomerDetails call without args (optional in FunctionCall).
SaveNoArgs(id) == [id |-> id, name |-> "saveCustomerDetails"]

\* A LiveServerMessage.  audio is the characters of
\* serverContent.modelTurn.parts[0].inlineData.data (<<>>: absent or empty);
\* inT, outT and toolCall are <<>> when serverContent.inputTranscription,
\* serverContent.outputTranscription and message.toolCall are absent and
\* hold the object otherwise; turnComplete is serverContent.turnComplete.
NoMsg ==
  [audio |-> <<>>, inT |-> <<>>, outT |-> <<>>, turnComplete |-> FALSE,
   toolCall |-> <<>>]

\* Chunks that decode, a chunk decodeAudioData rejects and one decode throws
\* on.
AudioMsgs ==
  {[NoMsg EXCEPT !.audio = PcmChunk(d)] : d \in Durations}
    \cup {[NoMsg EXCEPT !.audio = OddChunk], [NoMsg EXCEPT !.audio = NotBase64]}

Text(s) == <<Transcription(JsString(s))>>

TextMsgs ==
  {[NoMsg EXCEPT !.inT = Text(<<"a">>)], [NoMsg EXCEPT !.inT = Text(<<"b">>)],
   [NoMsg EXCEPT !.outT = Text(<<"b">>)], [NoMsg EXCEPT !.turnComplete = TRUE],
   [NoMsg EXCEPT !.inT = Text(<<"a">>), !.outT = Text(<<"b">>),
                 !.turnComplete = TRUE],
   \* a transcription object without text ({finished: true}), one with null
   [NoMsg EXCEPT !.inT = <<Transcription(Undefined)>>],
   [NoMsg EXCEPT !.outT = <<Transcription(Null)>>]}

\* The k-th tool-call message of a behaviour: its calls carry ids of their own
\* (10 * k + position), and the batches differ in length (one is empty), in
\* where the unregistered function stands and in whether a call lacks its
\* args; one toolCall has no functionCalls.
ToolMsg(k) ==
  [NoMsg EXCEPT !.toolCall =
     CASE k % 5 = 1 -> <<ToolCall(<<SaveCall(10 * k + 1), OtherCall(10 * k + 3),
                                    SaveCall(10 * k + 4)>>)>>
       [] k % 5 = 2 -> <<ToolCall(<<OtherCall(10 * k + 1), SaveCall(10 * k + 2),
                                    SaveNoArgs(10 * k + 3)>>)>>
       [] k % 5 = 3 -> <<ToolCall(<<>>)>>
       [] k % 5 = 4 -> <<EmptyObject>>
       [] OTHER -> <<ToolCall(<<OtherCall(10 * k + 1), SaveCall(10 * k + 2)>>)>>]

MixedMsg ==
  [audio |-> PcmChunk(1), inT |-> Text(<<"a">>), outT |-> Text(<<"b">>),
   turnComplete |-> TRUE,
   toolCall |-> <<ToolCall(<<SaveCall(1), OtherCall(2)>>)>>]

VARIABLES
  \* React state (part_000 lines 47-51)
  connectionState, customerData, transcripts, volumeLevel, isSpeaking,
  \* refs (lines 54-65)
  inputAudioContextRef, outputAudioContextRef, nextStartTimeRef, sourcesRef,
  streamRef, sessionPromiseRef, currentInputTranscription,
  currentOutputTranscription,
  \* environment
  apiKey,      \* process.env.API_KEY is set
  nSess,       \* connect attempts so far; attempt a owns contexts a, stream a
  cpc,         \* where connectToGemini of attempt a stands
  inCtx, outCtx, clock, stream, armed,
  chan,        \* the WebSocket of attempt a
  prom,        \* the promise returned by ai.live.connect of attempt a
  thenQ,       \* reactions registered on that promise while it is pending
  sources,     \* every AudioBufferSourceNode started, in order
  pendingH,    \* the onmessage handler suspended on decodeAudioData
  updQ,        \* setTranscripts updaters queued, not yet run by React
  \* history
  sessCloseCalls, inCtxCloseCalls, outCtxCloseCalls, streamStopCalls,
  sent, toolRecv, toolSent, delivered, nFrames,
  discA,      \* the latest attempt during which disconnect() was called
  discC,      \* the latest attempt during which it was called in CONNECTING
  sinceIn, sinceOut, commitLog,
  alerts,     \* alert() calls made by connectToGemini's API_KEY guard
  \* one frame through createBlob and back through decode / decodeAudioData
  pcmIn, pcmData, pcmOut

reactVars == <<connectionState, customerData, transcripts, volumeLevel, isSpeaking>>
refVars ==
  <<inputAudioContextRef, outputAudioContextRef, nextStartTimeRef, sourcesRef,
    streamRef, sessionPromiseRef, currentInputTranscription,
    currentOutputTranscription>>
envVars ==
  <<apiKey, nSess, cpc, inCtx, outCtx, clock, stream, armed, chan, prom, thenQ,
    sources, pendingH, updQ>>
histVars ==
  <<sessCloseCalls, inCtxCloseCalls, outCtxCloseCalls, streamStopCalls, sent,
    toolRecv, toolSent, delivered, nFrames, discA, discC, sinceIn,
    sinceOut, commitLog>>
pcmVars == <<pcmIn, pcmData, pcmOut>>
vars == <<reactVars, refVars, envVars, histVars, alerts, pcmVars>>

NoH == [sess |-> 0, msg |-> NoMsg, ctx |-> 0]

Init ==
  /\ connectionState = "DISCONNECTED"
  /\ customerData = <<>>
  /\ transcripts = <<>>
  /\ volumeLevel = 0
  /\ isSpeaking = FALSE
  /\ inputAudioContextRef = 0
  /\ outputAudioContextRef = 0
  /\ nextStartTimeRef = 0
  /\ sourcesRef = {}
  /\ streamRef = 0
  /\ sessionPromiseRef = 0
  /\ currentInputTranscription = <<>>
  /\ currentOutputTranscription = <<>>
  /\ apiKey \in BOOLEAN
  /\ nSess = 0
  /\ cpc = [a \in Sess |-> "idle"]
  /\ inCtx = [a \in Sess |-> "none"]
  /\ outCtx = [a \in Sess |-> "none"]
  /\ clock = [a \in Sess |-> 0]
  /\ stream = [a \in Sess |-> "none"]
  /\ armed = [a \in Sess |-> FALSE]
  /\ chan = [a \in Sess |-> "none"]
  /\ prom = [a \in Sess |-> "none"]
  /\ thenQ = [a \in Sess |-> <<>>]
  /\ sources = <<>>
  /\ pendingH = NoH
  /\ updQ = <<>>
  /\ sessCloseCalls = [a \in Sess |-> 0]
  /\ inCtxCloseCalls = [a \in Sess |-> 0]
  /\ outCtxCloseCalls = [a \in Sess |-> 0]
  /\ streamStopCalls = [a \in Sess |-> 0]
  /\ sent = <<>>
  /\ toolRecv = <<>>
  /\ toolSent = <<>>
  /\ delivered = 0
  /\ nFrames = 0
  /\ discA = 0
  /\ discC = 0
  /\ sinceIn = <<>>
  /\ sinceOut = <<>>
  /\ commitLog = <<>>
  /\ alerts = 0
  /\ pcmIn = <<>>
  /\ pcmData = <<>>
  /\ pcmOut = <<>>

\* No microtask is pending: a new task (a click, a channel event, a timer, an
\* audio callback) may start.
Idle == pendingH = NoH

\* ------------------------------------------------- connectToGemini
\* A guard that lets every call through.
KeyNeverMissing == FALSE

\* Line 68: !process.env.API_KEY.
KeyMissing == ~apiKey

\* Lines 67-80, up to the first await.  The Start Call button that calls it
\* is rendered only in DISCONNECTED and ERROR (lines 326-333).
Connect(maxSessions) ==
  /\ Idle
  /\ connectionState \in {"DISCONNECTED", "ERROR"}
  /\ nSess < maxSessions
  /\ alerts < maxSessions
  /\ UNCHANGED pcmVars
  /\ IF KeyMissing
       THEN /\ alerts' = alerts + 1
            /\ UNCHANGED <<reactVars, refVars, envVars, histVars>>
       ELSE LET a == nSess + 1 IN
         /\ UNCHANGED alerts
         /\ nSess' = a
         /\ connectionState' = "CONNECTING"
         /\ inCtx' = [inCtx EXCEPT ![a] = "running"]
         /\ outCtx' = [outCtx EXCEPT ![a] = "running"]
         /\ inputAudioContextRef' = a
         /\ outputAudioContextRef' = a
         /\ nextStartTimeRef' = 0
         /\ cpc' = [cpc EXCEPT ![a] = "ring"]
         /\ sinceIn' = <<>>
         /\ sinceOut' = <<>>
         /\ UNCHANGED <<customerData, transcripts, volumeLevel, isSpeaking,
                        sourcesRef, streamRef, sessionPromiseRef,
                        currentInputTranscription, currentOutputTranscription,
                        apiKey, clock, stream, armed, chan, prom, thenQ, sources,
                        pendingH, updQ, sessCloseCalls, inCtxCloseCalls,
                        outCtxCloseCalls, streamStopCalls, sent, toolRecv,
                        toolSent, delivered, nFrames, discA, discC, commitLog>>

\* Line 84: the ring's 2 s timer fires and connectToGemini goes on to
\* getUserMedia.
RingDone(a) ==
  /\ Idle
  /\ cpc[a] = "ring"
  /\ cpc' = [cpc EXCEPT ![a] = "gum"]
  /\ UNCHANGED <<reactVars, refVars, histVars, apiKey, nSess, inCtx, outCtx,
                 clock, stream, armed, chan, prom, thenQ, sources, pendingH, updQ>>
  /\ UNCHANGED <<alerts, pcmVars>>

\* Lines 87-95 and 234: getUserMedia resolves; the stream is kept, the channel
\* handshake starts and its promise is stored, not awaited.
GumResolve(a) ==
  /\ Idle
  /\ cpc[a] = "gum"
  /\ cpc' = [cpc EXCEPT ![a] = "done"]
  /\ stream' = [stream EXCEPT ![a] = "live"]
  /\ streamRef' = a
  /\ chan' = [chan EXCEPT ![a] = "handshake"]
  /\ prom' = [prom EXCEPT ![a] = "pending"]
  /\ sessionPromiseRef' = a
  /\ UNCHANGED <<reactVars, histVars, inputAudioContextRef,
                 outputAudioContextRef, nextStartTimeRef, sourcesRef,
                 currentInputTranscription, currentOutputTranscription, apiKey,
                 nSess, inCtx, outCtx, clock, armed, thenQ, sources, pendingH,
                 updQ>>
  /\ UNCHANGED <<alerts, pcmVars>>

\* Lines 87 and 236-239: getUserMedia rejects and the catch block runs.
GumReject(a) ==
  /\ Idle
  /\ cpc[a] = "gum"
  /\ cpc' = [cpc EXCEPT ![a] = "done"]
  /\ connectionState' = "ERROR"
  /\ UNCHANGED <<customerData, transcripts, volumeLevel, isSpeaking, refVars,
                 histVars, apiKey, nSess, inCtx, outCtx, clock, stream, armed,
                 chan, prom, thenQ, sources, pendingH, updQ>>
  /\ UNCHANGED <<alerts, pcmVars>>

\* Lines 105-131: onopen.
OnOpen(a) ==
  /\ Idle
  /\ chan[a] = "handshake"
  /\ chan' = [chan EXCEPT ![a] = "open"]
  /\ connectionState' = "CONNECTED"
  /\ armed' = [armed EXCEPT ![a] = TRUE]
  /\ UNCHANGED <<customerData, transcripts, volumeLevel, isSpeaking, refVars,
                 histVars, apiKey, nSess, cpc, inCtx, outCtx, clock, stream,
                 prom, thenQ, sources, pendingH, updQ>>
  /\ UNCHANGED <<alerts, pcmVars>>

\* ------------------------------------------------------- disconnect
\* What the body of disconnect and the reactions on a session promise write.
World ==
  [chan |-> chan, sessCloseCalls |-> sessCloseCalls, inCtx |-> inCtx,
   inCtxCloseCalls |-> inCtxCloseCalls, outCtx |-> outCtx,
   outCtxCloseCalls |-> outCtxCloseCalls, stream |-> stream,
   streamStopCalls |-> streamStopCalls, connectionState |-> connectionState,
   isSpeaking |-> isSpeaking, volumeLevel |-> volumeLevel, sent |-> sent,
   toolSent |-> toolSent]

\* Line 245: session.close() on the session of attempt p.
CloseSession(w, p) ==
  [w EXCEPT !.sessCloseCalls[p] = @ + 1,
            !.chan[p] = IF @ = "open" THEN "closing" ELSE @]

\* Lines 249-250: close() on the contexts the refs name.
CloseContexts(w) ==
  LET i == inputAudioContextRef
      o == outputAudioContextRef
      w1 == IF i # 0
              THEN [w EXCEPT !.inCtxCloseCalls[i] = @ + 1, !.inCtx[i] = "closed"]
              ELSE w
  IN IF o # 0
       THEN [w1 EXCEPT !.outCtxCloseCalls[o] = @ + 1, !.outCtx[o] = "closed"]
       ELSE w1

\* Lines 252-254: stop() on every track of the stream the ref names.
StopTracks(w) ==
  LET s == streamRef IN
  IF s # 0
    THEN [w EXCEPT !.streamStopCalls[s] = @ + 1, !.stream[s] = "stopped"]
    ELSE w

\* Lines 256-258.
ResetIndicators(w) ==
  [w EXCEPT !.connectionState = "DISCONNECTED", !.isSpeaking = FALSE,
            !.volumeLevel = 0]

\* Lines 245-258: disconnect from the resolution of its await; p is the
\* attempt whose promise it awaited, 0 when sessionPromiseRef was null.
Teardown(w, p) ==
  ResetIndicators(StopTracks(CloseContexts(IF p # 0 THEN CloseSession(w, p) ELSE w)))

\* Lines 124-126: a captured frame reaches session.sendRealtimeInput.
SendFrame(w, a, f) ==
  [w EXCEPT !.sent = Append(@, [sess |-> a, frame |-> f, chan |-> w.chan[a]])]

\* Lines 217-219: a batch of results reaches session.sendToolResponse.
SendTool(w, a, rs) ==
  [w EXCEPT !.toolSent =
      Append(@, [sess |-> a, functionResponses |-> rs, chan |-> w.chan[a]])]

Reaction(kind, frame, rs) == [kind |-> kind, frame |-> frame, responses |-> rs]

RECURSIVE RunReactions(_, _, _)
\* The reactions registered on the promise of attempt a (lines 124, 217, 244)
\* run in the order they were registered.
RunReactions(q, a, w) ==
  IF q = <<>> THEN w
  ELSE LET r == Head(q)
           w1 == CASE r.kind = "disc" -> Teardown(w, a)
                   [] r.kind = "send" -> SendFrame(w, a, r.frame)
                   [] OTHER -> SendTool(w, a, r.responses)
       IN RunReactions(Tail(q), a, w1)

Commit(w) ==
  /\ chan' = w.chan
  /\ sessCloseCalls' = w.sessCloseCalls
  /\ inCtx' = w.inCtx
  /\ inCtxCloseCalls' = w.inCtxCloseCalls
  /\ outCtx' = w.outCtx
  /\ outCtxCloseCalls' = w.outCtxCloseCalls
  /\ stream' = w.stream
  /\ streamStopCalls' = w.streamStopCalls
  /\ connectionState' = w.connectionState
  /\ isSpeaking' = w.isSpeaking
  /\ volumeLevel' = w.volumeLevel
  /\ sent' = w.sent
  /\ toolSent' = w.toolSent

\* Lines 242-259.  The End Call button that calls it is rendered in CONNECTING
\* and CONNECTED (lines 334-342).  maxDisc bounds the calls that wait on one
\* pending promise.
Disconnect(maxDisc) ==
  /\ Idle
  /\ connectionState \in {"CONNECTING", "CONNECTED"}
  /\ discA' = nSess
  /\ discC' = IF connectionState = "CONNECTING" THEN nSess ELSE discC
  /\ LET p == sessionPromiseRef IN
     CASE p # 0 /\ prom[p] = "pending" ->
            /\ Len(SelectSeq(thenQ[p], LAMBDA r : r.kind = "disc")) < maxDisc
            /\ thenQ' = [thenQ EXCEPT ![p] = Append(@, Reaction("disc", 0, <<>>))]
            /\ Commit(World)
       [] p # 0 /\ prom[p] = "rejected" ->
            \* the await throws: the rest of disconnect never runs
            /\ Commit(World)
            /\ UNCHANGED thenQ
       [] OTHER ->
            /\ Commit(Teardown(World, p))
            /\ UNCHANGED thenQ
  /\ UNCHANGED <<customerData, transcripts, refVars, apiKey, nSess, cpc, clock,
                 armed, prom, sources, pendingH, updQ, toolRecv, delivered,
                 nFrames, sinceIn, sinceOut, commitLog>>
  /\ UNCHANGED <<alerts, pcmVars>>

\* ai.live.connect's promise resolves with the session once the channel is
\* open; the reactions waiting on it run.
ResolveSession(a) ==
  /\ Idle
  /\ prom[a] = "pending"
  /\ armed[a]
  /\ prom' = [prom EXCEPT ![a] = "resolved"]
  /\ thenQ' = [thenQ EXCEPT ![a] = <<>>]
  /\ Commit(RunReactions(thenQ[a], a, World))
  /\ UNCHANGED <<customerData, transcripts, refVars, apiKey, nSess, cpc, clock,
                 armed, sources, pendingH, updQ, toolRecv, delivered, nFrames, discA, discC, sinceIn, sinceOut, commitLog>>
  /\ UNCHANGED <<alerts, pcmVars>>

\* ai.live.connect's promise rejects: then-callbacks without a rejection
\* handler are skipped and an awaiting disconnect throws.
ConnectRejects(a) ==
  /\ Idle
  /\ chan[a] = "handshake"
  /\ prom[a] = "pending"
  /\ prom' = [prom EXCEPT ![a] = "rejected"]
  /\ chan' = [chan EXCEPT ![a] = "closed"]
  /\ thenQ' = [thenQ EXCEPT ![a] = <<>>]
  /\ UNCHANGED <<reactVars, refVars, histVars, apiKey, nSess, cpc, inCtx,
                 outCtx, clock, stream, armed, sources, pendingH, updQ>>
  /\ UNCHANGED <<alerts, pcmVars>>

\* Lines 226-230: onerror.
OnError(a) ==
  /\ Idle
  /\ chan[a] \in {"handshake", "open"}
  /\ chan' = [chan EXCEPT ![a] = "errored"]
  /\ connectionState' = "ERROR"
  /\ isSpeaking' = FALSE
  /\ UNCHANGED <<customerData, transcripts, volumeLevel, refVars, apiKey, nSess,
                 cpc, inCtx, outCtx, clock, stream, armed, prom, thenQ, sources,
                 pendingH, updQ, sessCloseCalls, inCtxCloseCalls,
                 outCtxCloseCalls, streamStopCalls, sent, toolRecv, toolSent,
                 delivered, nFrames, discA, discC, sinceIn, sinceOut,
                 commitLog>>
  /\ UNCHANGED <<alerts, pcmVars>>

\* Lines 222-225: onclose; the close event also follows an error event and a
\* local close().
OnClose(a) ==
  /\ Idle
  /\ chan[a] \in {"open", "closing", "errored"}
  /\ chan' = [chan EXCEPT ![a] = "closed"]
  /\ connectionState' = "DISCONNECTED"
  /\ isSpeaking' = FALSE
  /\ UNCHANGED <<customerData, transcripts, volumeLevel, refVars, apiKey, nSess,
                 cpc, inCtx, outCtx, clock, stream, armed, prom, thenQ, sources,
                 pendingH, updQ, sessCloseCalls, inCtxCloseCalls,
                 outCtxCloseCalls, streamStopCalls, sent, toolRecv, toolSent,
                 delivered, nFrames, discA, discC, sinceIn, sinceOut,
                 commitLog>>
  /\ UNCHANGED <<alerts, pcmVars>>


\* ---------------------------------------------------------- onmessage
\* Line 195: the call names the registered function.
IsSave(fc) == "name" \in DOMAIN fc /\ fc.name = "saveCustomerDetails"

\* Line 196: fc.args is undefined or null.
ArgsMissing(fc) ==
  \/ "args" \notin DOMAIN fc
  \/ fc.args \in {Undefined, Null}

\* Line 198: args.fullName throws TypeError when args is missing.
CallThrows(fc) == IsSave(fc) /\ ArgsMissing(fc)

\* Line 194: message.toolCall.functionCalls.map throws TypeError when the
\* toolCall has no functionCalls.
FunctionCallsMissing(toolCall) == "functionCalls" \notin DOMAIN toolCall

\* Lines 194-215: the callback of map throws on some call of the batch.
MapThrows(calls) == \E i \in DOMAIN calls : CallThrows(calls[i])

RECURSIVE Ran(_)
\* The calls the callback of map completed: those before the first one it
\* throws on.
Ran(calls) ==
  IF calls = <<>> \/ CallThrows(Head(calls)) THEN <<>>
  ELSE <<Head(calls)>> \o Ran(Tail(calls))

\* Lines 208-214: the result built for one function call.
ToolResult(fc) ==
  IF IsSave(fc)
    THEN [id |-> Get(fc, "id"), name |-> Get(fc, "name"),
          response |-> [result |-> "Success: Customer details saved."]]
    ELSE [id |-> Get(fc, "id"), name |-> Get(fc, "name"),
          response |-> [result |-> "Unknown function"]]

\* Lines 197-204: the record built from a saveCustomerDetails call.
NewCustomer(fc) ==
  [fullName |-> Get(fc.args, "fullName"),
   phoneNumber |-> Get(fc.args, "phoneNumber"),
   monthlyIncome |-> Get(fc.args, "monthlyIncome"),
   age |-> Get(fc.args, "age"),
   insuranceType |-> Get(fc.args, "insuranceType"), timestamp |-> "now"]

\* Line 194: functionCalls.map.
Responses(calls) == [i \in 1..Len(calls) |-> ToolResult(calls[i])]

RECURSIVE Saved(_)
\* Line 206 over the calls that ran: the records their setCustomerData calls
\* append.
Saved(calls) ==
  IF calls = <<>> THEN <<>>
  ELSE (IF IsSave(Head(calls))
          THEN <<NewCustomer(Head(calls))>> ELSE <<>>) \o Saved(Tail(calls))

\* An updater that puts the new items first.
Prepended(prev, items) == items \o prev

\* Lines 175, 183 and 206: the updaters return [...prev, item].
Appended(prev, items) == prev \o items

\* Lines 175-179 / 183-187: the updater handed to setTranscripts reads the
\* role's buffer when React runs it.
ChatMessage(role) ==
  [role |-> role,
   text |-> IF role = "user" THEN currentInputTranscription
            ELSE currentOutputTranscription]

\* Lines 165-170: what a message appends to a role's buffer; t is the
\* message's inT or outT.
Delta(t) == IF t = <<>> THEN <<>> ELSE JsToString(t[1].text)

\* The text a message carries for a role: that of a transcription object
\* whose text is a string.
Received(t) ==
  IF t # <<>> /\ t[1].text.type = "string" THEN t[1].text.chars ELSE <<>>

\* Lines 164-220: onmessage after its audio branch, for a message m of attempt
\* a.  React runs an updater at once when the component has no update queued
\* (eager), and otherwise at its next render.  When line 194 or line 198
\* throws, the handler ends there: the commits of lines 173-190 and the
\* records of the calls that ran stay, and line 217 is not reached, so that
\* no response is sent or queued.
Rest(a, m, eager) ==
  LET inBuf == currentInputTranscription \o Delta(m.inT)
      outBuf == currentOutputTranscription \o Delta(m.outT)
      commitU == m.turnComplete /\ inBuf # <<>>
      commitM == m.turnComplete /\ outBuf # <<>>
      eagerU == eager /\ updQ = <<>>
      eagerM == eager /\ updQ = <<>> /\ ~commitU
      tool == m.toolCall # <<>>
      noCalls == tool /\ FunctionCallsMissing(m.toolCall[1])
      calls == IF tool /\ ~noCalls THEN m.toolCall[1].functionCalls ELSE <<>>
      throws == noCalls \/ MapThrows(calls)
      batch == tool /\ ~noCalls
      respond == tool /\ ~throws
      rs == Responses(calls)
  IN
  /\ currentInputTranscription' = IF commitU THEN <<>> ELSE inBuf
  /\ currentOutputTranscription' = IF commitM THEN <<>> ELSE outBuf
  /\ transcripts' =
       Appended(transcripts,
         (IF commitU /\ eagerU THEN <<[role |-> "user", text |-> inBuf]>> ELSE <<>>)
         \o (IF commitM /\ eagerM THEN <<[role |-> "model", text |-> outBuf]>> ELSE <<>>))
  /\ updQ' =
       updQ \o (IF commitU /\ ~eagerU THEN <<"user">> ELSE <<>>)
            \o (IF commitM /\ ~eagerM THEN <<"model">> ELSE <<>>)
  /\ commitLog' =
       commitLog
         \o (IF commitU
               THEN <<[role |-> "user", expect |-> sinceIn \o Received(m.inT)]>>
               ELSE <<>>)
         \o (IF commitM
               THEN <<[role |-> "model", expect |-> sinceOut \o Received(m.outT)]>>
               ELSE <<>>)
  /\ sinceIn' = IF commitU THEN <<>> ELSE sinceIn \o Received(m.inT)
  /\ sinceOut' = IF commitM THEN <<>> ELSE sinceOut \o Received(m.outT)
  /\ customerData' = Appended(customerData, Saved(Ran(calls)))
  /\ toolRecv' = IF batch
                   THEN Append(toolRecv, [sess |-> a, functionCalls |-> calls])
                   ELSE toolRecv
  /\ IF respond /\ prom[a] = "resolved"
       THEN /\ toolSent' = SendTool(World, a, rs).toolSent
            /\ UNCHANGED thenQ
       ELSE /\ thenQ' = IF respond
                          THEN [thenQ EXCEPT ![a] = Append(@, Reaction("tool", 0, rs))]
                          ELSE thenQ
            /\ UNCHANGED toolSent

\* Lines 132-147 (and the rest when there is no audio): a message of attempt a
\* is delivered to onmessage.  When decode throws at line 143 the handler
\* ends there; otherwise it waits for the promise of decodeAudioData.
OnMessage(a, m, eager, maxMsgs) ==
  /\ Idle
  /\ chan[a] = "open"
  /\ delivered < maxMsgs
  /\ delivered' = delivered + 1
  /\ IF m.audio # <<>>
       THEN /\ isSpeaking' = TRUE
            /\ IF outputAudioContextRef # 0
                 THEN /\ nextStartTimeRef' =
                           Max(nextStartTimeRef, clock[outputAudioContextRef])
                      /\ pendingH' = IF atobThrows(m.audio) THEN pendingH
                                     ELSE [sess |-> a, msg |-> m,
                                           ctx |-> outputAudioContextRef]
                      /\ UNCHANGED <<currentInputTranscription,
                                     currentOutputTranscription, transcripts,
                                     updQ, commitLog, sinceIn, sinceOut,
                                     customerData, toolRecv, toolSent, thenQ>>
                 ELSE /\ Rest(a, m, eager)
                      /\ UNCHANGED <<nextStartTimeRef, pendingH>>
       ELSE /\ Rest(a, m, eager)
            /\ UNCHANGED <<isSpeaking, nextStartTimeRef, pendingH>>
  /\ UNCHANGED <<connectionState, volumeLevel, inputAudioContextRef,
                 outputAudioContextRef, sourcesRef, streamRef,
                 sessionPromiseRef, apiKey, nSess, cpc, inCtx, outCtx, clock,
                 stream, armed, chan, prom, sources, sessCloseCalls,
                 inCtxCloseCalls, outCtxCloseCalls, streamStopCalls, sent,
                 nFrames, discA, discC>>
  /\ UNCHANGED <<alerts, pcmVars>>

\* Lines 142-220: the await on decodeAudioData ends.  When the promise has
\* rejected the handler ends there; otherwise it schedules the buffer and
\* goes on to the rest.
Resume(eager) ==
  /\ pendingH # NoH
  /\ LET h == pendingH
         data == decode(h.msg.audio)
         dur == Duration(decodeAudioData(data))
         src == [sess |-> h.sess, ctx |-> h.ctx, start |-> nextStartTimeRef,
                 dur |-> dur, at |-> clock[h.ctx]]
     IN IF decodeAudioDataRejects(data)
          THEN UNCHANGED <<sources, nextStartTimeRef, sourcesRef,
                           currentInputTranscription,
                           currentOutputTranscription, transcripts, updQ,
                           commitLog, sinceIn, sinceOut, customerData,
                           toolRecv, toolSent, thenQ>>
          ELSE /\ sources' = Append(sources, src)
               /\ nextStartTimeRef' = nextStartTimeRef + dur
               /\ sourcesRef' = sourcesRef \cup {Len(sources) + 1}
               /\ Rest(h.sess, h.msg, eager)
  /\ pendingH' = NoH
  /\ UNCHANGED <<connectionState, volumeLevel, isSpeaking,
                 inputAudioContextRef, outputAudioContextRef, streamRef,
                 sessionPromiseRef, apiKey, nSess, cpc, inCtx, outCtx, clock,
                 stream, armed, chan, prom, sessCloseCalls, inCtxCloseCalls,
                 outCtxCloseCalls, streamStopCalls, sent, delivered, nFrames, discA, discC>>
  /\ UNCHANGED <<alerts, pcmVars>>

\* ctx.currentTime (line 140) moves by a render quantum of 128 frames.
Quantum == 128

\* The first value of a context's clock that is not before time t.
QuantumCeil(t) == ((t + Quantum - 1) \div Quantum) * Quantum

\* Lines 153-156: a started source plays to its end on a running context (the
\* context's clock is then at least the source's end) and its 'ended' listener
\* runs.
Ended(s) ==
  /\ Idle
  /\ s \in sourcesRef
  /\ outCtx[sources[s].ctx] = "running"
  /\ clock' = [clock EXCEPT ![sources[s].ctx] =
                 Max(@, QuantumCeil(Max(sources[s].start, sources[s].at)
                                      + sources[s].dur))]
  /\ sourcesRef' = sourcesRef \ {s}
  /\ isSpeaking' = IF sourcesRef \ {s} = {} THEN FALSE ELSE isSpeaking
  /\ UNCHANGED <<connectionState, customerData, transcripts, volumeLevel,
                 inputAudioContextRef, outputAudioContextRef, nextStartTimeRef,
                 streamRef, sessionPromiseRef, currentInputTranscription,
                 currentOutputTranscription, histVars, apiKey, nSess, cpc,
                 inCtx, outCtx, stream, armed, chan, prom, thenQ, sources,
                 pendingH, updQ>>
  /\ UNCHANGED <<alerts, pcmVars>>

\* ctx.currentTime of a running output context advances on the audio thread,
\* at most maxTime times.
Tick(c, maxTime) ==
  /\ outCtx[c] = "running"
  /\ clock[c] < maxTime * Quantum
  /\ clock' = [clock EXCEPT ![c] = @ + Quantum]
  /\ UNCHANGED <<reactVars, refVars, histVars, apiKey, nSess, cpc, inCtx, outCtx,
                 stream, armed, chan, prom, thenQ, sources, pendingH, updQ>>
  /\ UNCHANGED <<alerts, pcmVars>>

\* Lines 112-127: onaudioprocess of attempt a's processor, with the frame's
\* scaled loudness lvl.
AudioProcess(a, lvl, maxFrames) ==
  /\ Idle
  /\ armed[a]
  /\ inCtx[a] = "running"
  /\ nFrames < maxFrames
  /\ nFrames' = nFrames + 1
  /\ volumeLevel' = lvl
  /\ IF prom[a] = "resolved"
       THEN /\ sent' = SendFrame(World, a, nFrames + 1).sent
            /\ UNCHANGED thenQ
       ELSE /\ thenQ' = [thenQ EXCEPT ![a] = Append(@, Reaction("send", nFrames + 1, <<>>))]
            /\ UNCHANGED sent
  /\ UNCHANGED <<connectionState, customerData, transcripts, isSpeaking, refVars,
                 apiKey, nSess, cpc, inCtx, outCtx, clock, stream, armed, chan,
                 prom, sources, pendingH, updQ, sessCloseCalls, inCtxCloseCalls,
                 outCtxCloseCalls, streamStopCalls, toolRecv, toolSent,
                 delivered, discA, discC, sinceIn, sinceOut, commitLog>>
  /\ UNCHANGED <<alerts, pcmVars>>

\* React renders: the queued setTranscripts updaters run, in order.
Render ==
  /\ Idle
  /\ updQ # <<>>
  /\ transcripts' = Appended(transcripts, [i \in 1..Len(updQ) |-> ChatMessage(updQ[i])])
  /\ updQ' = <<>>
  /\ UNCHANGED <<connectionState, customerData, volumeLevel, isSpeaking, refVars,
                 histVars, apiKey, nSess, cpc, inCtx, outCtx, clock, stream,
                 armed, chan, prom, thenQ, sources, pendingH>>
  /\ UNCHANGED <<alerts, pcmVars>>


\* ------------------------------------------------------- round trip
\* A frame goes through createBlob and its data comes back through decode
\* and decodeAudioData.
RoundTrip(frame) ==
  /\ pcmIn' = frame
  /\ pcmData' = createBlob(frame).data
  /\ pcmOut' = decodeAudioData(decode(createBlob(frame).data))
  /\ UNCHANGED <<reactVars, refVars, envVars, histVars, alerts>>

\* ------------------------------------------------------ specification
\* The steps of connectToGemini, disconnect and the channel that every
\* specification takes; maxSessions bounds the connect attempts and maxDisc
\* the disconnect() calls that wait on one promise.
Lifecycle(maxSessions, maxDisc) ==
  \/ Connect(maxSessions)
  \/ Disconnect(maxDisc)
  \/ \E a \in Sess : RingDone(a)
  \/ \E a \in Sess : GumResolve(a)
  \/ \E a \in Sess : GumReject(a)
  \/ \E a \in Sess : OnOpen(a)
  \/ \E a \in Sess : ResolveSession(a)
  \/ \E a \in Sess : ConnectRejects(a)
  \/ \E a \in Sess : OnError(a)
  \/ \E a \in Sess : OnClose(a)

Msgs == {MixedMsg}

Next ==
  \/ Lifecycle(MaxSessions, MaxDisc)
  \/ Render
  \/ \E a \in Sess, m \in Msgs, eager \in BOOLEAN : OnMessage(a, m, eager, MaxMsgs)
  \/ \E eager \in BOOLEAN : Resume(eager)
  \/ \E s \in DOMAIN sources : Ended(s)
  \/ \E c \in Sess : Tick(c, MaxTime)
  \/ \E a \in Sess, lvl \in Levels : AudioProcess(a, lvl, MaxFrames)

Spec == Init /\ [][Next]_vars

\* connectToGemini, disconnect and the channel's callbacks alone.
NextDisc == Lifecycle(DiscSessions, DiscCalls)

SpecDisc == Init /\ [][NextDisc]_vars

\* Audio chunks only, against the output clock.
NextPlay ==
  \/ Lifecycle(PlaySessions, MaxDisc)
  \/ \E a \in Sess, m \in AudioMsgs : OnMessage(a, m, TRUE, PlayMsgs)
  \/ Resume(TRUE)
  \/ \E s \in DOMAIN sources : Ended(s)
  \/ \E c \in Sess : Tick(c, PlayTime)

SpecPlay == Init /\ [][NextPlay]_vars

\* Transcription deltas and turn completions only.
NextText ==
  \/ Lifecycle(TextSessions, MaxDisc)
  \/ Render
  \/ \E a \in Sess, m \in TextMsgs, eager \in BOOLEAN :
       OnMessage(a, m, eager, TextMsgsMax)

SpecText == Init /\ [][NextText]_vars

\* Tool-call batches only.
NextTool ==
  \/ Lifecycle(ToolSessions, MaxDisc)
  \/ \E a \in Sess : OnMessage(a, ToolMsg(delivered + 1), TRUE, ToolMsgsMax)

SpecTool == Init /\ [][NextTool]_vars

\* Messages that commit both roles' text and save a customer; in the first
\* and every second one after it a call without args follows the one that
\* saves.
LogMsg(k) ==
  [NoMsg EXCEPT !.inT = Text(<<"a">>), !.outT = Text(<<"b">>),
                !.turnComplete = TRUE,
                !.toolCall =
                  <<ToolCall(IF k % 2 = 1
                               THEN <<SaveCall(k), SaveNoArgs(k + 10)>>
                               ELSE <<SaveCall(k)>>)>>]

NextLog ==
  \/ Lifecycle(LogSessions, MaxDisc)
  \/ Render
  \/ \E a \in Sess, eager \in BOOLEAN :
       OnMessage(a, LogMsg(delivered + 1), eager, LogMsgsMax)

SpecLog == Init /\ [][NextLog]_vars

\* The PCM functions of audioUtils.ts alone.
NextPcm == \E frame \in Frames : RoundTrip(frame)

SpecPcm == Init /\ [][NextPcm]_vars

\* ============================================================ properties

\* C1: within one session every scheduled chunk starts no earlier than the
\* end (start + duration) of the chunk scheduled before it, and no earlier
\* than the output clock's value at the moment source.start is called.
C1_StartsAfterPreviousEndAndClock ==
  \A i \in DOMAIN sources :
    /\ sources[i].start >= sources[i].at
    /\ \A j \in 1..(i - 1) :
         sources[j].sess = sources[i].sess /\ sources[j].ctx = sources[i].ctx
           => sources[i].start >= sources[j].start + sources[j].dur

\* C2: every message in the transcript log has the role of the commit that
\* produced it and, as its text, the concatenation of the deltas received for
\* that role since the role's previous commit or the session's start; a
\* role's buffer is empty right after its commit.
C2_CommittedTextIsConcatenation ==
  /\ Len(transcripts) + Len(updQ) = Len(commitLog)
  /\ \A i \in DOMAIN transcripts :
       /\ transcripts[i].role = commitLog[i].role
       /\ transcripts[i].text = commitLog[i].expect
  /\ currentInputTranscription = sinceIn
  /\ currentOutputTranscription = sinceOut

\* C3: per session, the response batches handed to sendToolResponse (sent, or
\* waiting on the session promise until it resolves) answer the toolCall
\* batches received one for one and in order; each batch holds one result per
\* invocation, in the invocations' order, with the invocation's id and name;
\* across all batches no id is answered twice, and nothing waits once the
\* session promise has resolved.
C3_OneResultPerInvocation ==
  /\ \A a \in Sess :
       LET recv == SelectSeq(toolRecv, LAMBDA e : e.sess = a)
           out == SelectSeq(toolSent, LAMBDA e : e.sess = a)
           wait == SelectSeq(thenQ[a], LAMBDA r : r.kind = "tool")
           batch(k) == IF k <= Len(out) THEN out[k].functionResponses
                       ELSE wait[k - Len(out)].responses
       IN /\ Len(out) + Len(wait) = Len(recv)
          /\ prom[a] = "resolved" => wait = <<>>
          /\ \A k \in DOMAIN recv :
               /\ Len(batch(k)) = Len(recv[k].functionCalls)
               /\ \A i \in DOMAIN recv[k].functionCalls :
                    /\ batch(k)[i].id = recv[k].functionCalls[i].id
                    /\ batch(k)[i].name = recv[k].functionCalls[i].name
  /\ \A k1, k2 \in DOMAIN toolSent :
       \A i1 \in DOMAIN toolSent[k1].functionResponses,
          i2 \in DOMAIN toolSent[k2].functionResponses :
         toolSent[k1].functionResponses[i1].id = toolSent[k2].functionResponses[i2].id
           => k1 = k2 /\ i1 = i2

\* C4: a message delivered to onmessage for a session during or after which
\* disconnect() has been called changes nothing: no speaking flag, no
\* scheduled source, no transcript buffer or log entry, no customer record, no
\* tool response.
C4_IgnoredAfterDisconnect ==
  [][/\ (delivered' # delivered /\ pendingH'.sess # 0 /\ discA >= pendingH'.sess)
          => isSpeaking' = isSpeaking
     /\ (pendingH # NoH /\ pendingH' = NoH /\ discA >= pendingH.sess)
          => UNCHANGED <<sources, sourcesRef, currentInputTranscription,
                         currentOutputTranscription, transcripts, updQ,
                         customerData, toolSent, thenQ>>]_vars

\* C5: each per-session resource (session channel, input context, output
\* context, microphone tracks) is closed or stopped at most once in total.
C5_ReleasedAtMostOnce ==
  \A a \in Sess :
    /\ sessCloseCalls[a] <= 1
    /\ inCtxCloseCalls[a] <= 1
    /\ outCtxCloseCalls[a] <= 1
    /\ streamStopCalls[a] <= 1

\* C6: once disconnect() has been called while the latest connect attempt was
\* in CONNECTING, the state is not CONNECTED again without a new connect(),
\* and when that attempt has settled none of its channel, microphone stream or
\* capture is left open.
C6_DisconnectWhileConnecting ==
  (discC > 0 /\ discC = nSess) =>
    /\ connectionState # "CONNECTED"
    /\ (cpc[nSess] = "done" /\ prom[nSess] \in {"none", "resolved"})
         => /\ chan[nSess] # "open"
            /\ stream[nSess] # "live"
            /\ ~(armed[nSess] /\ inCtx[nSess] = "running")

\* C7: at most one session's device resources (audio contexts, microphone
\* stream) are live at a time.
C7_OneSessionOwnsDevices ==
  Cardinality({a \in Sess : \/ inCtx[a] = "running"
                            \/ outCtx[a] = "running"
                            \/ stream[a] = "live"}) <= 1

\* C8: the state becomes CONNECTING only from DISCONNECTED or ERROR and
\* CONNECTED only from CONNECTING.
C8_TransitionsIntoConnectingConnected ==
  [][/\ (connectionState' = "CONNECTING" /\ connectionState # "CONNECTING")
          => connectionState \in {"DISCONNECTED", "ERROR"}
     /\ (connectionState' = "CONNECTED" /\ connectionState # "CONNECTED")
          => connectionState = "CONNECTING"]_vars

\* C9: once onerror has put the state in ERROR, only a connect() by the user
\* takes it out of ERROR.
C9_ErrorUntilConnect ==
  [][(/\ connectionState = "ERROR"
      /\ \E a \in Sess : chan[a] = "errored"
      /\ connectionState' # "ERROR")
       => nSess' = nSess + 1]_vars

\* C10: after onerror or onclose on a session that was connected, the session
\* is torn down: its microphone stream is released, its capture no longer
\* runs, no frame is sent on the dead channel and no scheduled source of it is
\* kept.
C10_TornDownOnErrorOrClose ==
  /\ \A a \in Sess :
       (armed[a] /\ chan[a] \in {"errored", "closed"}) =>
         /\ stream[a] # "live"
         /\ inCtx[a] # "running"
         /\ \A s \in sourcesRef : sources[s].sess # a
  /\ \A k \in DOMAIN sent : sent[k].chan \notin {"errored", "closed"}

\* C11: when the promise of ai.live.connect of the latest attempt has
\* rejected, the state is ERROR, or DISCONNECTED after a later disconnect();
\* it is not left in CONNECTING.
C11_HandshakeFailureIsError ==
  (nSess > 0 /\ prom[nSess] = "rejected")
    => connectionState \in {"ERROR", "DISCONNECTED"}

\* C12: once disconnect() has run its teardown during the latest connect
\* attempt, the state is DISCONNECTED, the attempt's channel and microphone
\* are not open, and the indicators are idle (volumeLevel 0, isSpeaking
\* false) until the next connect().
C12_DisconnectCompletesAndStaysIdle ==
  (nSess > 0 /\ inCtxCloseCalls[nSess] > 0) =>
    /\ connectionState = "DISCONNECTED"
    /\ ~isSpeaking
    /\ volumeLevel = 0
    /\ chan[nSess] \notin {"handshake", "open"}
    /\ stream[nSess] # "live"

\* C13: when a toolCall batch is handled, a response batch is handed to
\* sendToolResponse in which every invocation whose name is not
\* 'saveCustomerDetails' has the result {id, name, response: {result:
\* "Unknown function"}} with its own id and name and every other invocation
\* that carries its arguments has its success result; an invocation of the
\* first kind appends no record, one of the second kind appends one, and the
\* connection state does not change.
C13_UnknownFunctionDeclined ==
  [][(delivered' # delivered /\ toolRecv' # toolRecv) =>
       LET recv == toolRecv'[Len(toolRecv')]
           calls == recv.functionCalls
           rs == IF toolSent' # toolSent
                   THEN toolSent'[Len(toolSent')].functionResponses
                   ELSE thenQ'[recv.sess][Len(thenQ'[recv.sess])].responses
           unknown == {i \in DOMAIN calls : calls[i].name # "saveCustomerDetails"}
           others == {i \in DOMAIN calls \ unknown : "args" \in DOMAIN calls[i]}
       IN /\ connectionState' = connectionState
          /\ Len(customerData') = Len(customerData) + Cardinality(others)
          /\ toolSent' # toolSent \/ thenQ' # thenQ
          /\ Len(rs) = Len(calls)
          /\ \A i \in unknown :
               rs[i] = [id |-> calls[i].id, name |-> calls[i].name,
                        response |-> [result |-> "Unknown function"]]
          /\ \A i \in others :
               rs[i] = [id |-> calls[i].id, name |-> calls[i].name,
                        response |-> [result |-> "Success: Customer details saved."]]]_vars

\* C14: when a toolCall batch is handled, each saveCustomerDetails invocation
\* that carries its arguments appends one record, in the invocations' order,
\* whose five fields equal the invocation's arguments and whose timestamp is
\* non-empty, and gets one success result in the response batch handed to
\* sendToolResponse; the records already there stay, and the number of
\* records equals the number of such invocations received so far.
C14_OneRecordPerSave ==
  [][(delivered' # delivered /\ toolRecv' # toolRecv) =>
       LET recv == toolRecv'[Len(toolRecv')]
           calls == recv.functionCalls
           rs == IF toolSent' # toolSent
                   THEN toolSent'[Len(toolSent')].functionResponses
                   ELSE thenQ'[recv.sess][Len(thenQ'[recv.sess])].responses
           saves == {i \in DOMAIN calls :
                       /\ calls[i].name = "saveCustomerDetails"
                       /\ "args" \in DOMAIN calls[i]}
           rank(i) == Cardinality({k \in saves : k <= i})
           received ==
             {<<k, i>> \in (DOMAIN toolRecv') \X (1..3) :
                /\ i \in DOMAIN toolRecv'[k].functionCalls
                /\ toolRecv'[k].functionCalls[i].name = "saveCustomerDetails"
                /\ "args" \in DOMAIN toolRecv'[k].functionCalls[i]}
       IN /\ Len(customerData') = Len(customerData) + Cardinality(saves)
          /\ SubSeq(customerData', 1, Len(customerData)) = customerData
          /\ Len(customerData') = Cardinality(received)
          /\ \A i \in saves :
               LET c == customerData'[Len(customerData) + rank(i)] IN
               /\ c.fullName = calls[i].args.fullName
               /\ c.phoneNumber = calls[i].args.phoneNumber
               /\ c.monthlyIncome = calls[i].args.monthlyIncome
               /\ c.age = calls[i].args.age
               /\ c.insuranceType = calls[i].args.insuranceType
               /\ c.timestamp # ""
          /\ toolSent' # toolSent \/ thenQ' # thenQ
          /\ \A i \in saves :
               /\ rs[i].id = calls[i].id
               /\ rs[i].response.result = "Success: Customer details saved."]_vars

\* C15: between handlers, isSpeaking is true exactly when the set of
\* scheduled, unfinished sources is non-empty.
C15_SpeakingIffSourcesScheduled ==
  Idle => (isSpeaking <=> sourcesRef # {})

\* C16: with the API credential absent, connect() attempts no session: the
\* state stays DISCONNECTED (never CONNECTING), and no AudioContext, no
\* microphone stream, no channel and no session promise is created.
C16_NoSessionWithoutKey ==
  ~apiKey =>
    /\ connectionState = "DISCONNECTED"
    /\ nSess = 0
    /\ \A a \in Sess :
         /\ inCtx[a] = "none" /\ outCtx[a] = "none"
         /\ stream[a] = "none"
         /\ chan[a] = "none" /\ prom[a] = "none"
    /\ inputAudioContextRef = 0 /\ outputAudioContextRef = 0
    /\ streamRef = 0 /\ sessionPromiseRef = 0

\* C16's case: connect() was called without the credential and returned at
\* the guard.
C16_Witness ==
  ~apiKey /\ alerts > 0

\* C17: after getUserMedia has rejected for an attempt (no stream, no
\* channel), neither AudioContext created by that attempt is still running.
C17_NothingLeftOpenAfterMicFailure ==
  \A a \in Sess :
    (cpc[a] = "done" /\ stream[a] = "none" /\ chan[a] = "none")
      => inCtx[a] # "running" /\ outCtx[a] # "running"

\* C18: every sample of a frame encoded by createBlob and decoded by decode
\* and decodeAudioData comes back within one quantization step, 1 / 32768, of
\* the sample clamped to [-1, 1].
C18_RoundTripWithinOneStep ==
  /\ Len(pcmOut) = Len(pcmIn)
  /\ \A i \in DOMAIN pcmIn :
       \* in units of 1 / SampleDen, of which a quantization step holds `unit'
       LET unit == SampleDen \div DecodeScale
           d == pcmOut[i] * unit - Clamp(pcmIn[i])
       IN d <= unit /\ -d <= unit

\* C19: no message in the transcript log has empty text, and the messages
\* follow the order of the commits (user before model within a turn).
C19_NoEmptyMessageUserFirst ==
  \A i \in DOMAIN transcripts :
    /\ transcripts[i].text # <<>>
    /\ i <= Len(commitLog) /\ transcripts[i].role = commitLog[i].role

\* C20: the transcript log and the customer records are append-only: every
\* step keeps each message and each record already present, unmodified and at
\* its position.
C20_LogsAppendOnly ==
  [][/\ Len(transcripts') >= Len(transcripts)
     /\ SubSeq(transcripts', 1, Len(transcripts)) = transcripts
     /\ Len(customerData') >= Len(customerData)
     /\ SubSeq(customerData', 1, Len(customerData)) = customerData]_vars

\* C20's case: the first session took a message that committed both roles'
\* text and saved customer n1, then its channel reported a fatal error; no
\* disconnect() was ever called, so the state was ERROR when connect() ran
\* again with the logs filled.  The second session is connected and took a
\* message of its own: its record n2 stands after n1 and its two chat messages
\* after the first two.
C20_Witness ==
  /\ discA = 0
  /\ nSess = 2
  /\ chan[1] = "errored"
  /\ chan[2] = "open"
  /\ connectionState = "CONNECTED"
  /\ Len(toolRecv) = 2
  /\ toolRecv[1].sess = 1
  /\ toolRecv[2].sess = 2
  /\ Len(customerData) = 2
  /\ customerData[1].fullName = "n1"
  /\ customerData[2].fullName = "n2"
  /\ updQ = <<>>
  /\ Len(transcripts) = 4
  /\ transcripts[1].role = "user"
  /\ transcripts[4].role = "model"

\* C21: the per-role buffers hold the deltas received since the role's last
\* commit, in arrival order, and the text of every committed message is made
\* only of deltas that arrived before or with its turnComplete: it is a
\* prefix of the deltas received up to that turnComplete.
C21_DeltasInArrivalOrder ==
  /\ currentInputTranscription = sinceIn
  /\ currentOutputTranscription = sinceOut
  /\ \A i \in DOMAIN transcripts :
       /\ i <= Len(commitLog)
       /\ Len(transcripts[i].text) <= Len(commitLog[i].expect)
       /\ transcripts[i].text =
            SubSeq(commitLog[i].expect, 1, Len(transcripts[i].text))

\* C22: frames reach sendRealtimeInput in the order they were captured, and a
\* captured frame is not sent on a session that disconnect() has closed.
C22_SentInCaptureOrderNotAfterClose ==
  [][/\ \A i, j \in DOMAIN sent' :
          (i < j /\ sent'[i].sess = sent'[j].sess)
            => sent'[i].frame < sent'[j].frame
     /\ (nFrames' # nFrames /\ Len(sent') > Len(sent))
          => sessCloseCalls[sent'[Len(sent')].sess] = 0]_vars

\* C23: once disconnect() has run its teardown during the latest connect
\* attempt no source is tracked in sourcesRef, and every tracked source was
\* scheduled by the latest attempt's session.
C23_NoSourceOutlivesDisconnect ==
  /\ (nSess > 0 /\ outCtxCloseCalls[nSess] > 0) => sourcesRef = {}
  /\ \A s \in sourcesRef : sources[s].sess = nSess

\* C24: in CONNECTED the latest attempt's contexts are running, its
\* microphone stream is live and its channel is open.
C24_ConnectedMeansLive ==
  connectionState = "CONNECTED" =>
    /\ nSess > 0
    /\ inCtx[nSess] = "running"
    /\ outCtx[nSess] = "running"
    /\ stream[nSess] = "live"
    /\ chan[nSess] = "open"

====
